---- MODULE Spec2Model ----
(***************************************************************************)
(* docker-services.py: the dependency-aware start/restart request and the  *)
(* snapshot transaction protocol, as state machines.                       *)
(*                                                                         *)
(* Spec      one start, restart or stop request: planning loops, stop      *)
(*           loop, launch loop with one LaunchThreaded worker per list     *)
(*           entry, wait_for_launches and the exit status.                 *)
(* SpecSnap  invocations of the snapshot transaction of Snapshots.do on    *)
(*           one service directory, from the lock check on.                *)
(* The other specifications take a part of one of the two (planning,       *)
(* target resolution, snapshot naming, the snapshot action's exit status,  *)
(* invocations that can be killed) or add scheduling assumptions to Spec.  *)
(***************************************************************************)
EXTENDS Integers, Sequences, FiniteSets, TLC

\* ------------------------------------------------------------------------
\* Bounds of the model
\* ------------------------------------------------------------------------
NumContainers == 3
MaxLinks == 2
MaxTargets == 2
NumInvocations == 2
MaxWrites == 1
MaxGap == 2
MaxTaken == 100
MaxSnapshots == 2
MaxServices == 2
MaxEntries == 2

Catalog == 1..NumContainers
\* A link whose name matches no known container: ServiceDependency(None, None, name)
Unknown == 0

VARIABLES
    action,                       \* args.action: "start", "restart" or "stop"
    dependencies,                 \* container -> list of dependency targets
    containers,                   \* the resolved target list
    stop_containers,
    start_containers,
    restart_dependant_containers,
    pc,                           \* position of the coordinating thread
    running,                      \* containers docker-compose ps reports Up
    stopped,                      \* containers a stop command was run for
    tracker,                      \* FailedLaunchTracker.contents
    threads,                      \* workers moved to the background
    launch_i,                     \* index into the launched list
    wpc,                          \* worker -> position in LaunchThreaded.run
    wdep,                         \* worker -> index of the dependency polled
    wobserved,                    \* worker -> dependencies it has seen running
    wlaunched,                    \* worker -> container.launch() was invoked
    wresult,                      \* worker -> how run() ended
    exit_status,                  \* -1 while the process lives
    built,                        \* containers docker-compose rm/build/up was run for
    stop_i,                       \* index of the loop of the stop action
    argument,                     \* args.argument: the target tokens of the command line
    lock_path,                    \* .docker-services-snapshot.lock: <<>> or <<token>>
    livedata_dir,                 \* livedata/: "absent", "dir" or "subvol"
    livedata_renamed_dir,         \* .livedata-predeletion-renamed
    tempdata_dir,                 \* .livedata-temporary-prevolume-copy exists
    snapshot_dir,                 \* .btrfs-livedata-snapshot: "absent", "subvol", "other"
    tempvolume_dir,               \* .btrfs-livedata-temporary-volume exists
    snapshots_dir,                \* livedata-snapshots/ exists
    snapshot_specific_dirs,       \* contents of the snapshots materialized in it
    livedata_data,                \* version of the contents of livedata/
    snapshot_data,                \* contents of .btrfs-livedata-snapshot
    propagate_interrupt,          \* invocation -> the swap loop caught a KeyboardInterrupt
    taken_data,                   \* invocation -> <<contents of livedata/ when it
                                  \* ran "btrfs subvolume snapshot">>
    livedata_entries,             \* os.listdir(livedata_dir)
    renamed_entries,              \* os.listdir(livedata_renamed_dir)
    tempvolume_entries,           \* os.listdir(tempvolume_dir)
    conversion_entries,           \* what livedata/ held when the conversion began
    rw_volumes,                   \* Service.rw_volumes: "none", "outside", "inside" livedata/
    fs,                           \* filesystem type at livedata/
    service_running,              \* Service.is_running()
    spc,                          \* invocation -> position in Snapshots.do
    sresult,                      \* invocation -> how do() ended
    now,                          \* datetime.datetime.now() of the naming step
    existing,                     \* the names that exist in livedata-snapshots/
    snapshot_base_name,
    snapshot_name,
    name_i,                       \* the counter i of the naming loop
    npc,                          \* position in the naming step
    names_made,                   \* the names the naming step has copied to
    service_outcomes,             \* requested service -> how its snapshot goes
    service_i,                    \* index of the "for service in services" loop
    return_error,
    snapshot_exit,                \* exit status of the snapshot request, -1 before
    xpc                           \* position in the snapshot action

orch_vars == <<action, dependencies, containers, stop_containers,
               start_containers, restart_dependant_containers,
               pc, running, stopped, tracker, threads, launch_i, wpc, wdep,
               wobserved, wlaunched, wresult, exit_status, built, stop_i,
               argument>>

snap_fs == <<livedata_dir, livedata_renamed_dir, tempdata_dir, snapshot_dir,
             tempvolume_dir, snapshots_dir, snapshot_specific_dirs>>

name_vars == <<now, existing, snapshot_base_name, snapshot_name, name_i, npc,
               names_made>>

exit_vars == <<service_outcomes, service_i, return_error, snapshot_exit, xpc>>

snap_env == <<rw_volumes, fs, service_running, name_vars, exit_vars>>

entry_vars == <<livedata_entries, renamed_entries, tempvolume_entries,
                conversion_entries>>

snap_contents == <<livedata_data, snapshot_data, taken_data>>

snap_data == <<snap_contents, entry_vars>>

snap_vars == <<lock_path, snap_fs, snap_env, propagate_interrupt, snap_data, spc, sresult>>

vars == <<orch_vars, snap_vars>>

\* ------------------------------------------------------------------------
\* Helpers
\* ------------------------------------------------------------------------
Range(s) == {s[k] : k \in 1..Len(s)}

NoDup(s) == \A i, j \in 1..Len(s) : i # j => s[i] # s[j]

SeqsUpTo(S, n) == UNION {[1..m -> S] : m \in 0..n}

\* The declared links of the catalog, at most MaxLinks of them: a link goes
\* from a container to the name of a container of the catalog (its own name
\* included: the lookup does not skip the container itself) or to a name
\* nobody has.
Links == Catalog \X (Catalog \cup {Unknown})

LinkLists == {s \in SeqsUpTo(Links, MaxLinks) : NoDup(s)}

\* The targets of the links of container c, in the order they are declared
RECURSIVE LinksOf(_, _)
LinksOf(s, c) ==
    IF s = <<>> THEN <<>>
    ELSE IF Head(s)[1] = c THEN <<Head(s)[2]>> \o LinksOf(Tail(s), c)
    ELSE LinksOf(Tail(s), c)

\* container.dependencies for every container of the catalog
DepGraphs == {[c \in Catalog |-> LinksOf(s, c)] : s \in LinkLists}

\* The resolved target lists.  The catalog is numbered with the targets first,
\* in the order get_containers returns them: the planning loops never add a
\* target to a list, so its place in the catalog scan has no effect.
TargetLists == {[k \in 1..m |-> k] : m \in {n \in 1..MaxTargets : n <= NumContainers}}

\* ServiceDependency.container: raises ValueError when the service is unknown
Resolved(dep) == dep # Unknown

\* All dependency entries of the target list, in the order the first planning
\* loop visits them (for container in containers: for dep in dependencies)
RECURSIVE TargetDeps(_)
TargetDeps(i) ==
    IF i > Len(containers) THEN <<>>
    ELSE dependencies[containers[i]] \o TargetDeps(i + 1)

\* AppendMissing without the test "if not dep_container in start_containers"
AppendMissing_Always(deps, lst) == lst \o deps

RECURSIVE AppendMissing(_, _)
AppendMissing(deps, lst) ==
    IF deps = <<>> THEN lst
    ELSE IF Head(deps) \in Range(lst) THEN AppendMissing(Tail(deps), lst)
    ELSE AppendMissing(Tail(deps), Append(lst, Head(deps)))

\* DependantPass collecting the dependants of whatever is started, not
\* only of what is stopped
RECURSIVE DependantPass_OfStarted(_, _)
DependantPass_OfStarted(c, dependants) ==
    IF c > NumContainers THEN dependants
    ELSE LET stoppedNow == Range(start_containers) \cup Range(dependants)
             hit == /\ \E k \in 1..Len(dependencies[c]) :
                          /\ Resolved(dependencies[c][k])
                          /\ dependencies[c][k] \in stoppedNow
                    /\ c \notin Range(start_containers)
                    /\ c \notin Range(dependants)
         IN DependantPass_OfStarted(c + 1, IF hit THEN Append(dependants, c) ELSE dependants)

\* One pass of the for loop of the second planning loop over the catalog
RECURSIVE DependantPass(_, _)
DependantPass(c, dependants) ==
    IF c > NumContainers THEN dependants
    ELSE LET stoppedNow == Range(stop_containers) \cup Range(dependants)
             hit == /\ \E k \in 1..Len(dependencies[c]) :
                          /\ Resolved(dependencies[c][k])
                          /\ dependencies[c][k] \in stoppedNow
                    /\ c \notin Range(stop_containers)
                    /\ c \notin Range(dependants)
         IN DependantPass(c + 1, IF hit THEN Append(dependants, c) ELSE dependants)

\* The resolved dependency targets of a container
ResolvedDeps(c) == {dependencies[c][k] : k \in 1..Len(dependencies[c])} \ {Unknown}

\* Everything reachable from S along resolved dependency edges
RECURSIVE DepClosureN(_, _)
DepClosureN(S, n) ==
    IF n = 0 THEN S
    ELSE DepClosureN(S \cup UNION {ResolvedDeps(c) : c \in S}, n - 1)

DepClosure(S) == DepClosureN(S, NumContainers)

\* Everything that depends, directly or transitively, on a member of S
RECURSIVE DependantClosureN(_, _)
DependantClosureN(S, n) ==
    IF n = 0 THEN S
    ELSE DependantClosureN(S \cup {c \in Catalog : ResolvedDeps(c) \cap S # {}}, n - 1)

DependantClosure(S) == DependantClosureN(S, NumContainers)

\* The containers whose runtime state the request can read or change; the
\* state of the others is not tracked.
Observable ==
    DepClosure(Range(containers) \cup
               (IF action = "restart" THEN DependantClosure(Range(containers)) ELSE {}))

\* start_containers + restart_dependant_containers
LaunchList == start_containers \o restart_dependant_containers

\* Worker w launches LaunchList[w]; the workers exist once planning is over
Workers == DOMAIN wpc

Finished(w) == wpc[w] = "end"
Alive(w) == wpc[w] \notin {"idle", "end"}

\* The container worker w launches, and its dependency list
WContainer(w) == LaunchList[w]
WDeps(w) == dependencies[WContainer(w)]

\* ------------------------------------------------------------------------
\* Target resolution: TargetsParser.get_containers
\* ------------------------------------------------------------------------
\* The service a container belongs to: containers 1 and 2 make up service
\* 1, containers 3 and 4 service 2, and so on
ServiceOf(c) == (c + 1) \div 2

Services == {ServiceOf(c) : c \in Catalog}

\* service.containers
ContainersOf(s) == {c \in Catalog : ServiceOf(c) = s}

\* The target tokens of a command line: "all", "<service>" and
\* "<service>/<container>", where service 0 is a name Service.find_by_name
\* does not find and container 0 a name no container of the service has
Tokens ==
    {[kind |-> "all", service |-> 0, container |-> 0]}
        \cup {[kind |-> "service", service |-> s, container |-> 0] :
                   s \in Services \cup {0}}
        \cup {[kind |-> "container", service |-> s, container |-> c] :
                   s \in Services, c \in Catalog \cup {0}}
        \cup {[kind |-> "container", service |-> 0, container |-> 0]}

TokenLists == SeqsUpTo(Tokens, MaxTargets) \ {<<>>}

\* What get_containers returns for the token list, given the result set
\* collected so far: [none |-> TRUE] for "return None", else the set that
\* list(result) is made from
RECURSIVE get_containers(_, _)
get_containers(targets, result) ==
    IF targets = <<>> THEN [none |-> FALSE, set |-> result]
    ELSE LET target == Head(targets)
         IN IF target.kind = "all"
            THEN [none |-> FALSE, set |-> result \cup Catalog]
            ELSE IF target.service \notin Services
            THEN [none |-> TRUE, set |-> {}]
            ELSE IF target.kind = "service"
            THEN get_containers(Tail(targets),
                                result \cup ContainersOf(target.service))
            ELSE IF target.container \in ContainersOf(target.service)
            THEN get_containers(Tail(targets), result \cup {target.container})
            ELSE [none |-> TRUE, set |-> {}]

\* list(result): the members of the set in any order
Orderings(S) == {s \in [1..Cardinality(S) -> S] : NoDup(s)}

\* The non-empty lists get_containers can hand to an action
ResolvedLists ==
    UNION {Orderings(get_containers(t, {}).set) :
               t \in {u \in TokenLists : ~get_containers(u, {}).none}}

\* ------------------------------------------------------------------------
\* The request: state after target resolution
\* ------------------------------------------------------------------------
OrchInit ==
    /\ action \in {"start", "restart", "stop"}
    /\ dependencies \in DepGraphs
    /\ containers \in TargetLists
    /\ stop_containers = IF action = "restart" THEN containers ELSE <<>>
    /\ start_containers = IF action = "stop" THEN <<>> ELSE containers
    /\ restart_dependant_containers = <<>>
    /\ pc = IF action = "stop" THEN "stop_loop" ELSE "plan_start"
    /\ built = {}
    /\ stop_i = 1
    /\ argument = <<>>
    /\ running \in SUBSET Observable
    /\ stopped = {}
    /\ tracker = {}
    /\ threads = <<>>
    /\ launch_i = 1
    /\ wpc = <<>>
    /\ wdep = <<>>
    /\ wobserved = <<>>
    /\ wlaunched = <<>>
    /\ wresult = <<>>
    /\ exit_status = -1

\* ------------------------------------------------------------------------
\* Planning
\* ------------------------------------------------------------------------
\* All dependency entries of the catalog
RECURSIVE CatalogDeps(_)
CatalogDeps(c) ==
    IF c > NumContainers THEN <<>>
    ELSE dependencies[c] \o CatalogDeps(c + 1)

\* PlanStartPass collecting the dependencies of every container of the
\* catalog instead of those of the targets
PlanStartPass_WholeCatalog ==
    /\ pc = "plan_start"
    /\ IF \E k \in 1..Len(CatalogDeps(1)) : ~Resolved(CatalogDeps(1)[k])
       THEN /\ pc' = "exited"
            /\ exit_status' = 1
            /\ UNCHANGED start_containers
       ELSE LET new == AppendMissing(CatalogDeps(1), start_containers)
            IN /\ start_containers' = new
               /\ pc' = IF new # start_containers THEN "plan_start" ELSE "plan_dependants"
               /\ UNCHANGED exit_status
    /\ UNCHANGED <<snap_vars, argument, built, stop_i, action, dependencies, containers, stop_containers,
                   restart_dependant_containers, running, stopped, tracker,
                   threads, launch_i, wpc, wdep, wobserved, wlaunched, wresult>>

\* One pass of "while list_changed" of the dependency collection.  An
\* unresolved dependency of a target ends the process with sys.exit(1).
PlanStartPass ==
    /\ pc = "plan_start"
    /\ IF \E k \in 1..Len(TargetDeps(1)) : ~Resolved(TargetDeps(1)[k])
       THEN /\ pc' = "exited"
            /\ exit_status' = 1
            /\ UNCHANGED start_containers
       ELSE LET new == AppendMissing(TargetDeps(1), start_containers)
            IN /\ start_containers' = new
               /\ pc' = IF new # start_containers THEN "plan_start" ELSE "plan_dependants"
               /\ UNCHANGED exit_status
    /\ UNCHANGED <<snap_vars, argument, built, stop_i, action, dependencies, containers, stop_containers,
                   restart_dependant_containers, running, stopped, tracker,
                   threads, launch_i, wpc, wdep, wobserved, wlaunched, wresult>>

\* PlanDependantPass setting list_changed whenever the list holds a
\* dependant, also when the pass appended nothing
PlanDependantPass_AlwaysChanged ==
    /\ pc = "plan_dependants"
    /\ LET new == DependantPass(1, restart_dependant_containers)
           n == Len(start_containers) + Len(new)
       IN /\ restart_dependant_containers' = new
          /\ IF new # <<>>
             THEN /\ pc' = "plan_dependants"
                  /\ UNCHANGED <<wpc, wdep, wobserved, wlaunched, wresult>>
             ELSE /\ pc' = "stop"
                  /\ wpc' = [w \in 1..n |-> "idle"]
                  /\ wdep' = [w \in 1..n |-> 1]
                  /\ wobserved' = [w \in 1..n |-> {}]
                  /\ wlaunched' = [w \in 1..n |-> FALSE]
                  /\ wresult' = [w \in 1..n |-> "none"]
    /\ UNCHANGED <<snap_vars, argument, built, stop_i, action, dependencies, containers, stop_containers,
                   start_containers, running, stopped, tracker, threads,
                   launch_i, exit_status>>

\* One pass of "while list_changed" of the dependant collection.  The last
\* pass fixes the launched list; its workers do not exist yet.
PlanDependantPass ==
    /\ pc = "plan_dependants"
    /\ LET new == DependantPass(1, restart_dependant_containers)
           n == Len(start_containers) + Len(new)
       IN /\ restart_dependant_containers' = new
          /\ IF new # restart_dependant_containers
             THEN /\ pc' = "plan_dependants"
                  /\ UNCHANGED <<wpc, wdep, wobserved, wlaunched, wresult>>
             ELSE /\ pc' = "stop"
                  /\ wpc' = [w \in 1..n |-> "idle"]
                  /\ wdep' = [w \in 1..n |-> 1]
                  /\ wobserved' = [w \in 1..n |-> {}]
                  /\ wlaunched' = [w \in 1..n |-> FALSE]
                  /\ wresult' = [w \in 1..n |-> "none"]
    /\ UNCHANGED <<snap_vars, argument, built, stop_i, action, dependencies, containers, stop_containers,
                   start_containers, running, stopped, tracker, threads,
                   launch_i, exit_status>>

\* ------------------------------------------------------------------------
\* Stop loops
\* ------------------------------------------------------------------------
\* LaunchThreaded.stop(container) evaluates container.stop(): stop is a
\* property, so reading it runs "docker-compose stop" (check_call, which
\* raises when the command fails) and yields None; calling None raises
\* TypeError.  Either way the exception leaves the coordinating thread
\* unhandled at the first container of the two loops.
StopContainers ==
    /\ pc = "stop"
    /\ LET lst == stop_containers \o restart_dependant_containers
       IN IF lst = <<>>
          THEN /\ pc' = "launch"
               /\ UNCHANGED <<running, stopped, exit_status>>
          ELSE /\ \E command_ok \in BOOLEAN :
                     IF command_ok
                     THEN /\ running' = running \ {Head(lst)}
                          /\ stopped' = stopped \cup {Head(lst)}
                     ELSE UNCHANGED <<running, stopped>>
               /\ pc' = "crashed"
               /\ exit_status' = 1
    /\ UNCHANGED <<snap_vars, argument, built, stop_i, action, dependencies, containers, stop_containers,
                   start_containers, restart_dependant_containers,
                   tracker, threads, launch_i, wpc, wdep,
                   wobserved, wlaunched, wresult>>

\* ------------------------------------------------------------------------
\* Launch loop
\* ------------------------------------------------------------------------
\* attempt_launch: launch_t.start()
AttemptLaunch ==
    /\ pc = "launch"
    /\ launch_i <= Len(LaunchList)
    /\ wpc' = [wpc EXCEPT ![launch_i] = "perm"]
    /\ pc' = "join"
    /\ UNCHANGED <<snap_vars, argument, built, stop_i, action, dependencies, containers, stop_containers,
                   start_containers, restart_dependant_containers,
                   running, stopped, tracker, threads,
                   launch_i, wdep, wobserved, wlaunched, wresult, exit_status>>

\* JoinReturn forgetting the worker it sent to the background
JoinReturn_Forget ==
    /\ pc = "join"
    /\ launch_i' = launch_i + 1
    /\ pc' = IF launch_i = Len(LaunchList) THEN "wait" ELSE "launch"
    /\ UNCHANGED <<snap_vars, argument, built, stop_i, action, dependencies, containers, stop_containers,
                   start_containers, restart_dependant_containers,
                   running, stopped, tracker, threads, wpc, wdep,
                   wobserved, wlaunched, wresult, exit_status>>

\* attempt_launch: launch_t.join(to_background_timeout) returns; a worker
\* that is still alive is handed back and collected in threads.
JoinReturn ==
    /\ pc = "join"
    /\ threads' = IF Alive(launch_i) THEN Append(threads, launch_i) ELSE threads
    /\ launch_i' = launch_i + 1
    /\ pc' = IF launch_i = Len(LaunchList) THEN "wait" ELSE "launch"
    /\ UNCHANGED <<snap_vars, argument, built, stop_i, action, dependencies, containers, stop_containers,
                   start_containers, restart_dependant_containers,
                   running, stopped, tracker, wpc, wdep,
                   wobserved, wlaunched, wresult, exit_status>>

\* wait_for_launches returning without joining
WaitForLaunches_NoJoin ==
    /\ pc = "wait"
    /\ pc' = "report"
    /\ UNCHANGED <<snap_vars, argument, built, stop_i, action, dependencies, containers, stop_containers,
                   start_containers, restart_dependant_containers,
                   running, stopped, tracker, threads,
                   launch_i, wpc, wdep, wobserved, wlaunched, wresult,
                   exit_status>>

\* wait_for_launches: join every background worker
WaitForLaunches ==
    /\ pc = "wait"
    /\ \A k \in 1..Len(threads) : Finished(threads[k])
    /\ pc' = "report"
    /\ UNCHANGED <<snap_vars, argument, built, stop_i, action, dependencies, containers, stop_containers,
                   start_containers, restart_dependant_containers,
                   running, stopped, tracker, threads,
                   launch_i, wpc, wdep, wobserved, wlaunched, wresult,
                   exit_status>>

\* len(tracker) > 0 decides the exit status
ExitStatus ==
    /\ pc = "report"
    /\ exit_status' = IF Cardinality(tracker) > 0 THEN 1 ELSE 0
    /\ pc' = "exited"
    /\ UNCHANGED <<snap_vars, argument, built, stop_i, action, dependencies, containers, stop_containers,
                   start_containers, restart_dependant_containers,
                   running, stopped, tracker, threads,
                   launch_i, wpc, wdep, wobserved, wlaunched, wresult>>

\* ------------------------------------------------------------------------
\* LaunchThreaded.run, one worker per entry of the launched list
\* ------------------------------------------------------------------------
WorkerEnds(w, result) ==
    /\ wpc' = [wpc EXCEPT ![w] = "end"]
    /\ wresult' = [wresult EXCEPT ![w] = result]

\* The for loop over the dependencies moves on to the next one, or on to
\* the launch when the list is exhausted.  wobserved keeps the dependency
\* when the query that let the loop move on reported it running.
NextDependency(w) ==
    /\ wobserved' = [wobserved EXCEPT ![w] = @ \cup ({WDeps(w)[wdep[w]]} \cap running)]
    /\ wdep' = [wdep EXCEPT ![w] = @ + 1]
    /\ wpc' = [wpc EXCEPT ![w] = IF wdep[w] = Len(WDeps(w)) THEN "launch" ELSE "dep_if"]

\* Permission fix-up.  Reading permissions.yml, int(owner) of a user name
\* (ValueError, only TypeError is caught), getpwnam and chown can raise; the
\* outermost handler of run() then prints the error and the worker ends.
FixPermissions(w) ==
    /\ wpc[w] = "perm"
    /\ \/ /\ wpc' = [wpc EXCEPT ![w] = IF WDeps(w) = <<>> THEN "launch" ELSE "dep_if"]
          /\ UNCHANGED wresult
       \/ WorkerEnds(w, "unexpected")
    /\ UNCHANGED <<snap_vars, argument, built, stop_i, action, dependencies, containers, stop_containers,
                   start_containers, restart_dependant_containers,
                   pc, running, stopped, tracker, threads, launch_i,
                   wdep, wobserved, wlaunched, exit_status>>

\* "if not dependency.container.running": dependency.container raises
\* ValueError for an unresolved dependency (outermost handler).
CheckDependency(w) ==
    /\ wpc[w] = "dep_if"
    /\ LET dep == WDeps(w)[wdep[w]]
       IN IF ~Resolved(dep)
          THEN /\ WorkerEnds(w, "unexpected")
               /\ UNCHANGED <<wdep, wobserved>>
          ELSE IF dep \in running
          THEN /\ NextDependency(w)
               /\ UNCHANGED wresult
          ELSE /\ wpc' = [wpc EXCEPT ![w] = "dep_while"]
               /\ UNCHANGED <<wdep, wobserved, wresult>>
    /\ UNCHANGED <<snap_vars, argument, built, stop_i, action, dependencies, containers, stop_containers,
                   start_containers, restart_dependant_containers,
                   pc, running, stopped, tracker, threads, launch_i,
                   wlaunched, exit_status>>

\* PollDependency with the "return" after a failed dependency lost
PollDependency_NoReturn(w) ==
    /\ wpc[w] = "dep_while"
    /\ LET dep == WDeps(w)[wdep[w]]
       IN IF dep \in running \/ dep \in tracker
          THEN /\ NextDependency(w)
               /\ tracker' = IF dep \in running THEN tracker
                             ELSE tracker \cup {WContainer(w)}
               /\ UNCHANGED wresult
          ELSE UNCHANGED <<tracker, wpc, wresult, wdep, wobserved>>
    /\ UNCHANGED <<snap_vars, argument, built, stop_i, action, dependencies, containers, stop_containers,
                   start_containers, restart_dependant_containers,
                   pc, running, stopped, threads, launch_i,
                   wlaunched, exit_status>>

\* PollDependency giving up as soon as anything at all has failed
PollDependency_AnyFailure(w) ==
    /\ wpc[w] = "dep_while"
    /\ LET dep == WDeps(w)[wdep[w]]
       IN IF dep \in running
          THEN /\ NextDependency(w)
               /\ UNCHANGED <<tracker, wresult>>
          ELSE IF tracker # {}
          THEN /\ tracker' = tracker \cup {WContainer(w)}
               /\ WorkerEnds(w, "aborted")
               /\ UNCHANGED <<wdep, wobserved>>
          ELSE UNCHANGED <<tracker, wpc, wresult, wdep, wobserved>>
    /\ UNCHANGED <<snap_vars, argument, built, stop_i, action, dependencies, containers, stop_containers,
                   start_containers, restart_dependant_containers,
                   pc, running, stopped, threads, launch_i,
                   wlaunched, exit_status>>

\* One round of "while not dependency.container.running": the dependency is
\* running and the for loop moves on; or it is in the failed_launch_tracker
\* and the worker records its own container and returns; or the worker
\* sleeps and polls again.
PollDependency(w) ==
    /\ wpc[w] = "dep_while"
    /\ LET dep == WDeps(w)[wdep[w]]
       IN IF dep \in running
          THEN /\ NextDependency(w)
               /\ UNCHANGED <<tracker, wresult>>
          ELSE IF dep \in tracker
          THEN /\ tracker' = tracker \cup {WContainer(w)}
               /\ WorkerEnds(w, "aborted")
               /\ UNCHANGED <<wdep, wobserved>>
          ELSE UNCHANGED <<tracker, wpc, wresult, wdep, wobserved>>
    /\ UNCHANGED <<snap_vars, argument, built, stop_i, action, dependencies, containers, stop_containers,
                   start_containers, restart_dependant_containers,
                   pc, running, stopped, threads, launch_i,
                   wlaunched, exit_status>>

\* Launch running the commands without looking at container.running
Launch_NoRunningCheck(w) ==
    /\ wpc[w] = "launch"
    /\ wlaunched' = [wlaunched EXCEPT ![w] = TRUE]
    /\ \/ /\ running' = running \cup {WContainer(w)}
          /\ built' = built \cup {WContainer(w)}
          /\ wpc' = [wpc EXCEPT ![w] = "settle"]
          /\ UNCHANGED <<tracker, wresult>>
       \/ /\ tracker' = tracker \cup {WContainer(w)}
          /\ built' = built \cup {WContainer(w)}
          /\ WorkerEnds(w, "failed")
          /\ UNCHANGED running
    /\ UNCHANGED <<snap_vars, argument, stop_i, action, dependencies, containers, stop_containers,
                   start_containers, restart_dependant_containers,
                   pc, stopped, threads, launch_i, wdep, wobserved,
                   exit_status>>

\* self.container.launch(): nothing to do for a running container, else
\* docker-compose rm, build, up -d.  A failing command (CalledProcessError)
\* or any other exception records the container in the tracker.
Launch(w) ==
    /\ wpc[w] = "launch"
    /\ wlaunched' = [wlaunched EXCEPT ![w] = TRUE]
    /\ \/ /\ WContainer(w) \in running
          /\ wpc' = [wpc EXCEPT ![w] = "settle"]
          /\ UNCHANGED <<running, tracker, wresult, built>>
       \/ /\ WContainer(w) \notin running
          /\ running' = running \cup {WContainer(w)}
          /\ built' = built \cup {WContainer(w)}
          /\ wpc' = [wpc EXCEPT ![w] = "settle"]
          /\ UNCHANGED <<tracker, wresult>>
       \/ /\ WContainer(w) \notin running
          /\ tracker' = tracker \cup {WContainer(w)}
          /\ built' = built \cup {WContainer(w)}
          /\ WorkerEnds(w, "failed")
          /\ UNCHANGED running
    /\ UNCHANGED <<snap_vars, argument, stop_i, action, dependencies, containers, stop_containers,
                   start_containers, restart_dependant_containers,
                   pc, stopped, threads, launch_i, wdep, wobserved,
                   exit_status>>

\* Settle returning for a container that is not running without recording it
Settle_NoRecord(w) ==
    /\ wpc[w] = "settle"
    /\ WorkerEnds(w, IF WContainer(w) \in running THEN "running" ELSE "failed")
    /\ UNCHANGED <<snap_vars, argument, built, stop_i, action, dependencies, containers, stop_containers,
                   start_containers, restart_dependant_containers,
                   pc, running, stopped, tracker, threads, launch_i, wdep,
                   wobserved, wlaunched, exit_status>>

\* time.sleep(1); "if not self.container.running"
Settle(w) ==
    /\ wpc[w] = "settle"
    /\ IF WContainer(w) \in running
       THEN /\ WorkerEnds(w, "running")
            /\ UNCHANGED tracker
       ELSE /\ tracker' = tracker \cup {WContainer(w)}
            /\ WorkerEnds(w, "failed")
    /\ UNCHANGED <<snap_vars, argument, built, stop_i, action, dependencies, containers, stop_containers,
                   start_containers, restart_dependant_containers,
                   pc, running, stopped, threads, launch_i, wdep,
                   wobserved, wlaunched, exit_status>>

\* The runtime: a running container can exit at any time while the request
\* launches.
ContainerExits(c) ==
    /\ pc \in {"launch", "join", "wait"}
    /\ c \in running
    /\ running' = running \ {c}
    /\ UNCHANGED <<snap_vars, argument, built, stop_i, action, dependencies, containers, stop_containers,
                   start_containers, restart_dependant_containers,
                   pc, stopped, tracker, threads, launch_i, wpc, wdep,
                   wobserved, wlaunched, wresult, exit_status>>

\* One round of the loop of the stop action: a running container is
\* stopped through LaunchThreaded.stop, which ends the process as in
\* StopContainers; for any other "not currently running." is printed.
StopRequested ==
    /\ pc = "stop_loop"
    /\ stop_i <= Len(containers)
    /\ IF containers[stop_i] \in running
       THEN /\ \E command_ok \in BOOLEAN :
                  IF command_ok
                  THEN /\ running' = running \ {containers[stop_i]}
                       /\ stopped' = stopped \cup {containers[stop_i]}
                  ELSE UNCHANGED <<running, stopped>>
            /\ pc' = "crashed"
            /\ exit_status' = 1
            /\ UNCHANGED stop_i
       ELSE /\ stop_i' = stop_i + 1
            /\ UNCHANGED <<running, stopped, pc, exit_status>>
    /\ UNCHANGED <<snap_vars, argument, built, action, dependencies, containers, stop_containers,
                   start_containers, restart_dependant_containers,
                   tracker, threads, launch_i, wpc, wdep,
                   wobserved, wlaunched, wresult>>

\* The end of the stop action: sys.exit(0)
StopExit ==
    /\ pc = "stop_loop"
    /\ stop_i > Len(containers)
    /\ exit_status' = 0
    /\ pc' = "exited"
    /\ UNCHANGED <<snap_vars, argument, built, stop_i, action, dependencies, containers, stop_containers,
                   start_containers, restart_dependant_containers,
                   running, stopped, tracker, threads,
                   launch_i, wpc, wdep, wobserved, wlaunched, wresult>>

\* containers = TargetsParser.get_containers(...) and what the action does
\* with it first: len(None) of the start and restart actions and the for
\* loop over None of the stop action raise TypeError, which ends the
\* process with status 1; an empty list ends start and restart with 0.
ResolveTargets ==
    /\ pc = "resolve"
    /\ LET r == get_containers(argument, {})
       IN IF r.none
          THEN /\ pc' = "crashed"
               /\ exit_status' = 1
               /\ UNCHANGED <<containers, stop_containers, start_containers>>
          ELSE IF r.set = {} /\ action # "stop"
          THEN /\ pc' = "exited"
               /\ exit_status' = 0
               /\ UNCHANGED <<containers, stop_containers, start_containers>>
          ELSE /\ \E lst \in Orderings(r.set) :
                     /\ containers' = lst
                     /\ stop_containers' = IF action = "restart" THEN lst ELSE <<>>
                     /\ start_containers' = IF action = "stop" THEN <<>> ELSE lst
               /\ pc' = IF action = "stop" THEN "stop_loop" ELSE "plan_start"
               /\ UNCHANGED exit_status
    /\ UNCHANGED <<snap_vars, argument, built, stop_i, action, dependencies,
                   restart_dependant_containers, running, stopped, tracker,
                   threads, launch_i, wpc, wdep, wobserved, wlaunched, wresult>>

OrchNext ==
    \/ StopRequested
    \/ StopExit
    \/ PlanStartPass
    \/ PlanDependantPass
    \/ StopContainers
    \/ AttemptLaunch
    \/ JoinReturn
    \/ WaitForLaunches
    \/ ExitStatus
    \/ \E w \in Workers : FixPermissions(w)
    \/ \E w \in Workers : CheckDependency(w)
    \/ \E w \in Workers : PollDependency(w)
    \/ \E w \in Workers : Launch(w)
    \/ \E w \in Workers : Settle(w)
    \/ \E c \in Catalog : ContainerExits(c)

\* The steps of LaunchThreaded.run in worker w
WorkerStep(w) ==
    /\ w \in Workers
    /\ \/ FixPermissions(w)
       \/ CheckDependency(w)
       \/ PollDependency(w)
       \/ Launch(w)
       \/ Settle(w)

\* The steps of the coordinating thread, which is never kept from running
Coordinator ==
    \/ StopRequested
    \/ StopExit
    \/ PlanStartPass
    \/ PlanDependantPass
    \/ StopContainers
    \/ AttemptLaunch
    \/ JoinReturn
    \/ WaitForLaunches
    \/ ExitStatus

\* ------------------------------------------------------------------------
\* The name of the materialized snapshot directory
\* ------------------------------------------------------------------------
DigitChar == <<"0", "1", "2", "3", "4", "5", "6", "7", "8", "9">>

\* str(n) of a non-negative integer
RECURSIVE Str(_)
Str(n) ==
    IF n < 10 THEN <<DigitChar[n + 1]>>
    ELSE Str(n \div 10) \o <<DigitChar[(n % 10) + 1]>>

\* "if n < 10: name += '0'" followed by "name += str(n)"
ZeroStr(n) == (IF n < 10 THEN <<"0">> ELSE <<>>) \o Str(n)

\* snapshot_base_name as the code builds it from now
BaseName(t) ==
    Str(t.year) \o ZeroStr(t.month) \o ZeroStr(t.day) \o <<"-">>
        \o ZeroStr(t.hour) \o ZeroStr(t.minute) \o ZeroStr(t.second)

\* The readings of the clock the naming step is tried with
Times ==
    {[year |-> 2015, month |-> 3, day |-> 7, hour |-> 0, minute |-> 5, second |-> 9],
     [year |-> 2015, month |-> 12, day |-> 31, hour |-> 23, minute |-> 59, second |-> 59],
     [year |-> 2016, month |-> 10, day |-> 9, hour |-> 10, minute |-> 0, second |-> 10]}

\* The sets of sequence numbers earlier snapshots of the same second have
\* taken: any set of small numbers, or all numbers below some count
TakenSets == (SUBSET (0..MaxGap)) \cup {0..(k - 1) : k \in 0..MaxTaken}

\* No naming step while another part of the tool is modelled
NameIdle ==
    /\ now = [year |-> 2015, month |-> 3, day |-> 7, hour |-> 0, minute |-> 5, second |-> 9]
    /\ existing = {}
    /\ snapshot_base_name = <<>>
    /\ snapshot_name = <<>>
    /\ name_i = 1
    /\ npc = "idle"
    /\ names_made = <<>>

\* do() has taken the internal snapshot; livedata-snapshots/ holds the
\* directories of earlier snapshots of the same second
NameInit ==
    /\ now \in Times
    /\ \E taken \in TakenSets :
          existing = {BaseName(now) \o ZeroStr(j) : j \in taken}
    /\ snapshot_base_name = <<>>
    /\ snapshot_name = <<>>
    /\ name_i = 1
    /\ npc = "base"
    /\ names_made = <<>>

\* now = datetime.datetime.now() up to "i = 1"
NameBase ==
    /\ npc = "base"
    /\ snapshot_base_name' = BaseName(now)
    /\ snapshot_name' = BaseName(now) \o <<"0", "0">>
    /\ name_i' = 1
    /\ npc' = "loop"
    /\ UNCHANGED <<orch_vars, lock_path, snap_fs, rw_volumes, fs, service_running, exit_vars,
                   propagate_interrupt, snap_data, spc, sresult,
                   now, existing, names_made>>

\* One test of "while os.path.exists(...)" and, when the name exists, one
\* round of the loop body
NameLoop ==
    /\ npc = "loop"
    /\ IF snapshot_name \in existing
       THEN /\ snapshot_name' = snapshot_base_name \o ZeroStr(name_i)
            /\ name_i' = name_i + 1
            /\ UNCHANGED npc
       ELSE /\ npc' = "copy"
            /\ UNCHANGED <<snapshot_name, name_i>>
    /\ UNCHANGED <<orch_vars, lock_path, snap_fs, rw_volumes, fs, service_running, exit_vars,
                   propagate_interrupt, snap_data, spc, sresult,
                   now, existing, snapshot_base_name, names_made>>

\* shutil.copytree(snapshot_dir, snapshot_specific_dir): creates the
\* directory, and raises when it exists
NameCopy ==
    /\ npc = "copy"
    /\ IF snapshot_name \in existing
       THEN /\ npc' = "crashed"
            /\ UNCHANGED <<existing, names_made>>
       ELSE /\ existing' = existing \cup {snapshot_name}
            /\ names_made' = Append(names_made, snapshot_name)
            /\ npc' = "done"
    /\ UNCHANGED <<orch_vars, lock_path, snap_fs, rw_volumes, fs, service_running, exit_vars,
                   propagate_interrupt, snap_data, spc, sresult,
                   now, snapshot_base_name, snapshot_name, name_i>>

\* The next snapshot request reaches the naming step, in the same second
NameAgain ==
    /\ npc = "done"
    /\ Len(names_made) < MaxSnapshots
    /\ npc' = "base"
    /\ UNCHANGED <<orch_vars, lock_path, snap_fs, rw_volumes, fs, service_running, exit_vars,
                   propagate_interrupt, snap_data, spc, sresult,
                   now, existing, snapshot_base_name, snapshot_name, name_i,
                   names_made>>

NameNext == NameBase \/ NameLoop \/ NameCopy \/ NameAgain

\* ------------------------------------------------------------------------
\* The snapshot action: one do() per requested service and the exit status
\* ------------------------------------------------------------------------
\* The ways the snapshot of one requested service can go: the service
\* directory is not on btrfs ("not_btrfs", do() is not called), or do() ends
\* in one of its outcomes
ServiceOutcomes ==
    {"not_btrfs", "skipped", "finished", "in_progress", "no_livedata",
     "needs_stop", "collision", "not_a_snapshot", "copy_failed",
     "returned_fs", "exit1", "crashed"}

\* What do() hands to its caller: True, False, the name of the filesystem
\* of livedata/, or None when it runs off its end
DoReturns(outcome) ==
    CASE outcome = "skipped" -> "True"
      [] outcome = "returned_fs" -> "fs"
      [] outcome = "finished" -> "None"
      [] OTHER -> "False"

\* bool(value): a non-empty string is true, None is false
Truthy(value) == value \in {"True", "fs"}

ExitIdle ==
    /\ service_outcomes = <<>>
    /\ service_i = 1
    /\ return_error = FALSE
    /\ snapshot_exit = -1
    /\ xpc = "idle"

\* The requested services have been resolved
ExitInit ==
    /\ service_outcomes \in SeqsUpTo(ServiceOutcomes, MaxServices)
    /\ service_i = 1
    /\ return_error = FALSE
    /\ snapshot_exit = -1
    /\ xpc = "loop"

\* One round of "for service in services".  sys.exit(1) inside do() and an
\* exception that leaves do() both end the process with status 1.
SnapshotService ==
    /\ xpc = "loop"
    /\ service_i <= Len(service_outcomes)
    /\ LET outcome == service_outcomes[service_i]
       IN IF outcome \in {"exit1", "crashed"}
          THEN /\ snapshot_exit' = 1
               /\ xpc' = "exited"
               /\ UNCHANGED <<return_error, service_i>>
          ELSE /\ return_error' =
                     IF outcome = "not_btrfs" THEN TRUE
                     ELSE IF ~Truthy(DoReturns(outcome)) THEN TRUE
                     ELSE return_error
               /\ service_i' = service_i + 1
               /\ UNCHANGED <<snapshot_exit, xpc>>
    /\ UNCHANGED <<orch_vars, lock_path, snap_fs, rw_volumes, fs, service_running,
                   name_vars, propagate_interrupt, snap_data, spc, sresult,
                   service_outcomes>>

\* "if return_error: sys.exit(1) else: sys.exit(0)"
SnapshotExit ==
    /\ xpc = "loop"
    /\ service_i > Len(service_outcomes)
    /\ snapshot_exit' = IF return_error THEN 1 ELSE 0
    /\ xpc' = "exited"
    /\ UNCHANGED <<orch_vars, lock_path, snap_fs, rw_volumes, fs, service_running,
                   name_vars, propagate_interrupt, snap_data, spc, sresult,
                   service_outcomes, service_i, return_error>>

ExitNext == SnapshotService \/ SnapshotExit

\* ------------------------------------------------------------------------
\* The snapshot transaction: Snapshots.do on one service directory
\* ------------------------------------------------------------------------
Invocations == 1..NumInvocations

\* The token left in a lock file by an invocation that no longer exists
StaleToken == 0

\* The contents of what an earlier, aborted run left behind
OldData == 0

\* The names a top-level entry of livedata/ can have, and the ones it has
\* when the tool is invoked
Entries == 1..MaxEntries

InitialEntries == 1..(MaxEntries - 1)

\* What a process writing to livedata/ can make of its top-level entries
\* while the copy is made: nothing, one entry more or one entry less
EntryChanges(listing) ==
    {listing} \cup {listing \cup {f} : f \in Entries}
              \cup {listing \ {f} : f \in Entries}

\* The check of the copy with its second loop left out
CopyFailed_FirstLoopOnly(in_livedata, in_tempvolume) ==
    \E f \in in_tempvolume : f \notin in_livedata

\* "Do a superficial check if we copied all things": the two loops over
\* os.listdir with os.path.exists of the same name on the other side
CopyFailed(in_livedata, in_tempvolume) ==
    \/ \E f \in in_tempvolume : f \notin in_livedata
    \/ \E f \in in_livedata : f \notin in_tempvolume

\* An invocation the process table lists ("ps aux | grep docker-services")
SnapAlive(p) == spc[p] \notin {"idle", "done"}

\* Positions after the lock has been verified
PastVerify ==
    {"recover_renamed", "recover_tempdata", "recover_snapshot",
     "recover_tempvolume", "convert_create", "convert_copy", "swap_aside",
     "swap_in", "swap_delete", "mkdir_snapshots", "snapshot", "materialize",
     "delete_snapshot"}

\* The read-write volumes of the service, as do() asks for them
get_service_volumes == rw_volumes

\* "Check if the given path is a btrfs subvolume."
is_btrfs_subvolume(path) == path = "subvol"

\* do() returns (or the process ends) with the given outcome
Return(p, result) ==
    /\ spc' = [spc EXCEPT ![p] = "done"]
    /\ sresult' = [sresult EXCEPT ![p] = result]

Goto(p, position) ==
    /\ spc' = [spc EXCEPT ![p] = position]
    /\ UNCHANGED sresult

SnapInit ==
    /\ lock_path \in {<<>>, <<StaleToken>>}
    /\ livedata_dir \in {"absent", "dir", "subvol"}
    /\ livedata_renamed_dir \in {"absent", "dir"}
    /\ tempdata_dir \in BOOLEAN
    /\ snapshot_dir \in {"absent", "subvol", "other"}
    /\ tempvolume_dir \in BOOLEAN
    /\ snapshots_dir \in BOOLEAN
    /\ snapshot_specific_dirs = <<>>
    /\ livedata_data = OldData + 1
    /\ snapshot_data = OldData
    /\ taken_data = [p \in Invocations |-> <<>>]
    /\ livedata_entries = IF livedata_dir = "absent" THEN {} ELSE InitialEntries
    /\ renamed_entries = IF livedata_renamed_dir = "absent" THEN {} ELSE InitialEntries
    /\ tempvolume_entries = {}
    /\ conversion_entries = {}
    /\ propagate_interrupt = [p \in Invocations |-> FALSE]
    /\ rw_volumes \in {"none", "outside", "inside"}
    /\ fs \in {"btrfs", "other"}
    /\ service_running \in BOOLEAN
    /\ spc = [p \in Invocations |-> "idle"]
    /\ sresult = [p \in Invocations |-> "none"]
    /\ NameIdle
    /\ ExitIdle

\* The tool is invoked with "snapshot <service>" on a btrfs service
\* directory and do() gets past btrfs_tool_check.
StartSnapshot(p) ==
    /\ spc[p] = "idle"
    /\ Goto(p, "check_lock")
    /\ UNCHANGED <<orch_vars, lock_path, snap_fs, snap_env, propagate_interrupt, snap_data>>

\* The lock check taking every lock file it finds for stale
CheckRunningSnapshotTransaction_NoPs(p) ==
    /\ spc[p] = "check_lock"
    /\ IF lock_path = <<>>
       THEN Goto(p, "volumes")
       ELSE Goto(p, "remove_stale")
    /\ UNCHANGED <<orch_vars, lock_path, snap_fs, snap_env, propagate_interrupt, snap_data>>

\* check_running_snapshot_transaction up to its decision: no lock file, or
\* a lock file and another tool process in the process table ("in
\* progress", do() returns False), or a lock file and no other process.
CheckRunningSnapshotTransaction(p) ==
    /\ spc[p] = "check_lock"
    /\ IF lock_path = <<>>
       THEN Goto(p, "volumes")
       ELSE IF \E q \in Invocations \ {p} : SnapAlive(q)
       THEN Return(p, "in_progress")
       ELSE Goto(p, "remove_stale")
    /\ UNCHANGED <<orch_vars, lock_path, snap_fs, snap_env, propagate_interrupt, snap_data>>

\* os.remove of the stale lock file; it raises when the file is gone.
RemoveStaleLock(p) ==
    /\ spc[p] = "remove_stale"
    /\ IF lock_path = <<>>
       THEN Return(p, "crashed")
       ELSE Goto(p, "volumes")
    /\ lock_path' = <<>>
    /\ UNCHANGED <<orch_vars, snap_fs, snap_env, propagate_interrupt, snap_data>>

\* "if len(volumes) == 0: return True"
CheckVolumes(p) ==
    /\ spc[p] = "volumes"
    /\ IF get_service_volumes = "none"
       THEN Return(p, "skipped")
       ELSE Goto(p, "livedata")
    /\ UNCHANGED <<orch_vars, lock_path, snap_fs, snap_env, propagate_interrupt, snap_data>>

\* "if not os.path.exists(<name>/livedata): return False"
CheckLivedata(p) ==
    /\ spc[p] = "livedata"
    /\ IF livedata_dir = "absent"
       THEN Return(p, "no_livedata")
       ELSE Goto(p, "volumes_inside")
    /\ UNCHANGED <<orch_vars, lock_path, snap_fs, snap_env, propagate_interrupt, snap_data>>

\* "if empty_snapshot: return True"
CheckVolumesInLivedata(p) ==
    /\ spc[p] = "volumes_inside"
    /\ IF get_service_volumes = "outside"
       THEN Return(p, "skipped")
       ELSE Goto(p, "filesystem")
    /\ UNCHANGED <<orch_vars, lock_path, snap_fs, snap_env, propagate_interrupt, snap_data>>

\* "if fs != 'btrfs': return fs"
CheckFilesystem(p) ==
    /\ spc[p] = "filesystem"
    /\ IF fs # "btrfs"
       THEN Return(p, "returned_fs")
       ELSE Goto(p, "service_running")
    /\ UNCHANGED <<orch_vars, lock_path, snap_fs, snap_env, propagate_interrupt, snap_data>>

\* CheckServiceRunning going on whatever Service.is_running() says
CheckServiceRunning_NoCheck(p) ==
    /\ spc[p] = "service_running"
    /\ Goto(p, "acquire")
    /\ UNCHANGED <<orch_vars, lock_path, snap_fs, snap_env, propagate_interrupt, snap_data>>

\* A running service whose livedata/ is no subvolume: return False
CheckServiceRunning(p) ==
    /\ spc[p] = "service_running"
    /\ IF service_running /\ ~is_btrfs_subvolume(livedata_dir)
       THEN Return(p, "needs_stop")
       ELSE Goto(p, "acquire")
    /\ UNCHANGED <<orch_vars, lock_path, snap_fs, snap_env, propagate_interrupt, snap_data>>

\* open(lock_path, "wb") and write of the fresh uuid4 token
AcquireLock(p) ==
    /\ spc[p] = "acquire"
    /\ lock_path' = <<p>>
    /\ Goto(p, "verify")
    /\ UNCHANGED <<orch_vars, snap_fs, snap_env, propagate_interrupt, snap_data>>

\* VerifyLock accepting whatever token the lock file holds
VerifyLock_NoCompare(p) ==
    /\ spc[p] = "verify"
    /\ IF lock_path = <<>>
       THEN Return(p, "crashed")
       ELSE Goto(p, "recover_renamed")
    /\ UNCHANGED <<orch_vars, lock_path, snap_fs, snap_env, propagate_interrupt, snap_data>>

\* After time.sleep(0.5): re-read the lock file (open raises when it is
\* gone) and compare with the token written.
VerifyLock(p) ==
    /\ spc[p] = "verify"
    /\ IF lock_path = <<>>
       THEN Return(p, "crashed")
       ELSE IF lock_path # <<p>>
       THEN Return(p, "collision")
       ELSE Goto(p, "recover_renamed")
    /\ UNCHANGED <<orch_vars, lock_path, snap_fs, snap_env, propagate_interrupt, snap_data>>

\* RecoverRenamed deleting the leftover when livedata/ is there as well
RecoverRenamed_DeleteLeftover(p) ==
    /\ spc[p] = "recover_renamed"
    /\ IF livedata_renamed_dir = "absent"
       THEN /\ Goto(p, "recover_tempdata")
            /\ UNCHANGED <<livedata_dir, livedata_renamed_dir,
                           livedata_entries, renamed_entries>>
       ELSE IF livedata_dir = "absent"
       THEN /\ livedata_dir' = livedata_renamed_dir
            /\ livedata_renamed_dir' = "absent"
            /\ livedata_entries' = renamed_entries
            /\ renamed_entries' = {}
            /\ Goto(p, "recover_tempdata")
       ELSE /\ livedata_renamed_dir' = "absent"
            /\ renamed_entries' = {}
            /\ Goto(p, "recover_tempdata")
            /\ UNCHANGED <<livedata_dir, livedata_entries>>
    /\ UNCHANGED <<orch_vars, lock_path, tempdata_dir, snapshot_dir,
                   tempvolume_dir, snapshots_dir, snapshot_specific_dirs,
                   snap_env, propagate_interrupt, snap_contents,
                   tempvolume_entries, conversion_entries>>

\* .livedata-predeletion-renamed present: moved back when livedata/ is
\* missing, else sys.exit(1).
RecoverRenamed(p) ==
    /\ spc[p] = "recover_renamed"
    /\ IF livedata_renamed_dir = "absent"
       THEN /\ Goto(p, "recover_tempdata")
            /\ UNCHANGED <<livedata_dir, livedata_renamed_dir,
                           livedata_entries, renamed_entries>>
       ELSE IF livedata_dir = "absent"
       THEN /\ livedata_dir' = livedata_renamed_dir
            /\ livedata_renamed_dir' = "absent"
            /\ livedata_entries' = renamed_entries
            /\ renamed_entries' = {}
            /\ Goto(p, "recover_tempdata")
       ELSE /\ Return(p, "exit1")
            /\ UNCHANGED <<livedata_dir, livedata_renamed_dir,
                           livedata_entries, renamed_entries>>
    /\ UNCHANGED <<orch_vars, lock_path, tempdata_dir, snapshot_dir,
                   tempvolume_dir, snapshots_dir, snapshot_specific_dirs,
                   snap_env, propagate_interrupt, snap_contents,
                   tempvolume_entries, conversion_entries>>

\* .livedata-temporary-prevolume-copy present: shutil.rmtree
RecoverTempdata(p) ==
    /\ spc[p] = "recover_tempdata"
    /\ tempdata_dir' = FALSE
    /\ Goto(p, "recover_snapshot")
    /\ UNCHANGED <<orch_vars, lock_path, livedata_dir, livedata_renamed_dir,
                   snapshot_dir, tempvolume_dir, snapshots_dir,
                   snapshot_specific_dirs, snap_env, propagate_interrupt, snap_data>>

\* RecoverSnapshotDir deleting whatever it finds at the path
RecoverSnapshotDir_DeleteBlindly(p) ==
    /\ spc[p] = "recover_snapshot"
    /\ snapshot_dir' = "absent"
    /\ Goto(p, "recover_tempvolume")
    /\ UNCHANGED <<orch_vars, lock_path, livedata_dir, livedata_renamed_dir,
                   tempdata_dir, tempvolume_dir, snapshots_dir,
                   snapshot_specific_dirs, snap_env, propagate_interrupt, snap_data>>

\* .btrfs-livedata-snapshot present: "btrfs subvolume delete" when it is a
\* subvolume (the command can fail), return False when it is not.
RecoverSnapshotDir(p) ==
    /\ spc[p] = "recover_snapshot"
    /\ \/ /\ snapshot_dir = "absent"
          /\ Goto(p, "recover_tempvolume")
          /\ UNCHANGED snapshot_dir
       \/ /\ snapshot_dir = "subvol"
          /\ snapshot_dir' = "absent"
          /\ Goto(p, "recover_tempvolume")
       \/ /\ snapshot_dir = "subvol"
          /\ Return(p, "crashed")
          /\ UNCHANGED snapshot_dir
       \/ /\ snapshot_dir = "other"
          /\ Return(p, "not_a_snapshot")
          /\ UNCHANGED snapshot_dir
    /\ UNCHANGED <<orch_vars, lock_path, livedata_dir, livedata_renamed_dir,
                   tempdata_dir, tempvolume_dir, snapshots_dir,
                   snapshot_specific_dirs, snap_env, propagate_interrupt, snap_data>>

\* .btrfs-livedata-temporary-volume present: "btrfs subvolume delete"
RecoverTempvolume(p) ==
    /\ spc[p] = "recover_tempvolume"
    /\ \/ /\ tempvolume_dir' = FALSE
          /\ tempvolume_entries' = {}
          /\ Goto(p, "convert_create")
       \/ /\ tempvolume_dir
          /\ Return(p, "crashed")
          /\ UNCHANGED <<tempvolume_dir, tempvolume_entries>>
    /\ UNCHANGED <<orch_vars, lock_path, livedata_dir, livedata_renamed_dir,
                   tempdata_dir, snapshot_dir, snapshots_dir,
                   snapshot_specific_dirs, snap_env, propagate_interrupt,
                   snap_contents, livedata_entries, renamed_entries,
                   conversion_entries>>

\* "if not is_btrfs_subvolume(livedata_dir)": "btrfs subvolume create" of
\* the temporary volume; when the command fails the handler removes the
\* lock file and re-raises.
ConvertCreate(p) ==
    /\ spc[p] = "convert_create"
    /\ \/ /\ is_btrfs_subvolume(livedata_dir)
          /\ Goto(p, "mkdir_snapshots")
          /\ UNCHANGED <<tempvolume_dir, lock_path, conversion_entries>>
       \/ /\ ~is_btrfs_subvolume(livedata_dir)
          /\ ~tempvolume_dir
          /\ tempvolume_dir' = TRUE
          /\ conversion_entries' = livedata_entries
          /\ Goto(p, "convert_copy")
          /\ UNCHANGED lock_path
       \/ /\ ~is_btrfs_subvolume(livedata_dir)
          /\ lock_path' = <<>>
          /\ Return(p, "crashed")
          /\ UNCHANGED <<tempvolume_dir, conversion_entries>>
    /\ UNCHANGED <<orch_vars, livedata_dir, livedata_renamed_dir,
                   tempdata_dir, snapshot_dir, snapshots_dir,
                   snapshot_specific_dirs, snap_env, propagate_interrupt,
                   snap_contents, livedata_entries, renamed_entries,
                   tempvolume_entries>>

\* copytree of livedata/ into the prevolume copy, its entries moved into
\* the temporary volume (the emptied copy directory stays), and the
\* comparison of the two listings.  Whoever writes to livedata/ in the
\* meantime can have added or removed an entry before it is listed.
ConvertCopy(p) ==
    /\ spc[p] = "convert_copy"
    /\ IF tempdata_dir \/ livedata_dir = "absent" \/ ~tempvolume_dir
       THEN /\ Return(p, "crashed")
            /\ UNCHANGED <<tempdata_dir, livedata_entries, tempvolume_entries>>
       ELSE /\ tempdata_dir' = TRUE
            /\ tempvolume_entries' = tempvolume_entries \cup livedata_entries
            /\ \E listing \in EntryChanges(livedata_entries) :
                  /\ livedata_entries' = listing
                  /\ LET copy_failed == CopyFailed(listing, tempvolume_entries')
                     IN IF copy_failed
                        THEN Return(p, "copy_failed")
                        ELSE Goto(p, "swap_aside")
    /\ UNCHANGED <<orch_vars, lock_path, livedata_dir, livedata_renamed_dir,
                   snapshot_dir, tempvolume_dir, snapshots_dir,
                   snapshot_specific_dirs, snap_env, propagate_interrupt,
                   snap_contents, renamed_entries, conversion_entries>>

\* shutil.move(livedata_dir, livedata_renamed_dir): a missing source
\* raises; an existing destination directory takes the source inside it.
SwapRenameAside(p) ==
    /\ spc[p] = "swap_aside"
    /\ IF livedata_dir = "absent"
       THEN /\ Return(p, "crashed")
            /\ UNCHANGED <<livedata_dir, livedata_renamed_dir,
                           livedata_entries, renamed_entries>>
       ELSE /\ livedata_renamed_dir' =
                  IF livedata_renamed_dir = "absent" THEN livedata_dir
                  ELSE livedata_renamed_dir
            /\ renamed_entries' =
                  IF livedata_renamed_dir = "absent" THEN livedata_entries
                  ELSE renamed_entries
            /\ livedata_dir' = "absent"
            /\ livedata_entries' = {}
            /\ Goto(p, "swap_in")
    /\ UNCHANGED <<orch_vars, lock_path, tempdata_dir, snapshot_dir,
                   tempvolume_dir, snapshots_dir, snapshot_specific_dirs,
                   snap_env, propagate_interrupt, snap_contents,
                   tempvolume_entries, conversion_entries>>

\* shutil.move(tempvolume_dir, livedata_dir)
SwapRenameIn(p) ==
    /\ spc[p] = "swap_in"
    /\ IF ~tempvolume_dir
       THEN /\ Return(p, "crashed")
            /\ UNCHANGED <<livedata_dir, tempvolume_dir, livedata_entries,
                           tempvolume_entries>>
       ELSE /\ livedata_dir' =
                  IF livedata_dir = "absent" THEN "subvol" ELSE livedata_dir
            /\ livedata_entries' =
                  IF livedata_dir = "absent" THEN tempvolume_entries
                  ELSE livedata_entries
            /\ tempvolume_dir' = FALSE
            /\ tempvolume_entries' = {}
            /\ Goto(p, "swap_delete")
    /\ UNCHANGED <<orch_vars, lock_path, livedata_renamed_dir, tempdata_dir,
                   snapshot_dir, snapshots_dir, snapshot_specific_dirs,
                   snap_env, propagate_interrupt, snap_contents,
                   renamed_entries, conversion_entries>>

\* shutil.rmtree(livedata_renamed_dir), end of the loop body, and "raise
\* propagate_interrupt" when an interrupt was caught on the way.
SwapDelete(p) ==
    /\ spc[p] = "swap_delete"
    /\ IF livedata_renamed_dir = "absent"
       THEN /\ Return(p, "crashed")
            /\ UNCHANGED <<livedata_renamed_dir, renamed_entries>>
       ELSE /\ livedata_renamed_dir' = "absent"
            /\ renamed_entries' = {}
            /\ IF propagate_interrupt[p]
               THEN Return(p, "interrupted")
               ELSE Goto(p, "mkdir_snapshots")
    /\ UNCHANGED <<orch_vars, lock_path, livedata_dir, tempdata_dir,
                   snapshot_dir, tempvolume_dir, snapshots_dir,
                   snapshot_specific_dirs, snap_env, propagate_interrupt,
                   snap_contents, livedata_entries, tempvolume_entries,
                   conversion_entries>>

\* "except KeyboardInterrupt: propagate_interrupt = e; continue": an
\* interrupt that arrives inside the loop body sends the loop back to its
\* first statement, whichever of the three had been reached.  One that
\* arrives inside shutil.rmtree finds part of the old tree deleted.
SwapInterrupt(p) ==
    /\ spc[p] \in {"swap_aside", "swap_in", "swap_delete"}
    /\ propagate_interrupt' = [propagate_interrupt EXCEPT ![p] = TRUE]
    /\ \E deleted \in SUBSET renamed_entries :
          /\ deleted # {} => spc[p] = "swap_delete"
          /\ renamed_entries' = renamed_entries \ deleted
    /\ Goto(p, "swap_aside")
    /\ UNCHANGED <<orch_vars, lock_path, snap_fs, snap_env, snap_contents,
                   livedata_entries, tempvolume_entries, conversion_entries>>

\* "if not os.path.exists(snapshots_dir): os.mkdir(snapshots_dir)"
MakeSnapshotsDir(p) ==
    /\ spc[p] = "mkdir_snapshots"
    /\ snapshots_dir' = TRUE
    /\ Goto(p, "snapshot")
    /\ UNCHANGED <<orch_vars, lock_path, livedata_dir, livedata_renamed_dir,
                   tempdata_dir, snapshot_dir, tempvolume_dir,
                   snapshot_specific_dirs, snap_env, propagate_interrupt, snap_data>>

\* "btrfs subvolume snapshot -r -- livedata_dir snapshot_dir"; check_output
\* raises when the command fails.
TakeSnapshot(p) ==
    /\ spc[p] = "snapshot"
    /\ \/ /\ livedata_dir = "subvol"
          /\ snapshot_dir = "absent"
          /\ snapshot_dir' = "subvol"
          /\ snapshot_data' = livedata_data
          /\ taken_data' = [taken_data EXCEPT ![p] = <<livedata_data>>]
          /\ Goto(p, "materialize")
       \/ /\ Return(p, "crashed")
          /\ UNCHANGED <<snapshot_dir, snapshot_data, taken_data>>
    /\ UNCHANGED <<orch_vars, lock_path, livedata_dir, livedata_renamed_dir,
                   tempdata_dir, tempvolume_dir, snapshots_dir,
                   snapshot_specific_dirs, snap_env, propagate_interrupt, livedata_data,
                   entry_vars>>

\* Materialize copying livedata/ itself instead of the internal snapshot
Materialize_FromLivedata(p) ==
    /\ spc[p] = "materialize"
    /\ IF snapshot_dir = "absent" \/ ~snapshots_dir
       THEN /\ Return(p, "crashed")
            /\ UNCHANGED snapshot_specific_dirs
       ELSE /\ snapshot_specific_dirs' = Append(snapshot_specific_dirs, livedata_data)
            /\ Goto(p, "delete_snapshot")
    /\ UNCHANGED <<orch_vars, lock_path, livedata_dir, livedata_renamed_dir,
                   tempdata_dir, snapshot_dir, tempvolume_dir, snapshots_dir,
                   snap_env, propagate_interrupt, snap_data>>

\* copytree of the internal snapshot into a fresh timestamped directory
Materialize(p) ==
    /\ spc[p] = "materialize"
    /\ IF snapshot_dir = "absent" \/ ~snapshots_dir
       THEN /\ Return(p, "crashed")
            /\ UNCHANGED snapshot_specific_dirs
       ELSE /\ snapshot_specific_dirs' = Append(snapshot_specific_dirs, snapshot_data)
            /\ Goto(p, "delete_snapshot")
    /\ UNCHANGED <<orch_vars, lock_path, livedata_dir, livedata_renamed_dir,
                   tempdata_dir, snapshot_dir, tempvolume_dir, snapshots_dir,
                   snap_env, propagate_interrupt, snap_data>>

\* "btrfs subvolume delete snapshot_dir", then do() runs off its end: the
\* lock file stays and the caller receives None.
DeleteSnapshot(p) ==
    /\ spc[p] = "delete_snapshot"
    /\ \/ /\ snapshot_dir # "absent"
          /\ snapshot_dir' = "absent"
          /\ Return(p, "finished")
       \/ /\ Return(p, "crashed")
          /\ UNCHANGED snapshot_dir
    /\ UNCHANGED <<orch_vars, lock_path, livedata_dir, livedata_renamed_dir,
                   tempdata_dir, tempvolume_dir, snapshots_dir,
                   snapshot_specific_dirs, snap_env, propagate_interrupt, snap_data>>

\* The running service writes to its volumes in livedata/
LivedataWrite ==
    /\ service_running
    /\ livedata_dir # "absent"
    /\ livedata_data <= MaxWrites
    /\ livedata_data' = livedata_data + 1
    /\ UNCHANGED <<orch_vars, lock_path, snap_fs, snap_env, propagate_interrupt, snapshot_data,
                   taken_data, entry_vars, spc, sresult>>

\* The process of an invocation is killed between two steps of do(), or
\* inside shutil.rmtree of the old tree
Kill(p) ==
    /\ SnapAlive(p)
    /\ \E deleted \in SUBSET renamed_entries :
          /\ deleted # {} => spc[p] = "swap_delete"
          /\ renamed_entries' = renamed_entries \ deleted
    /\ Return(p, "killed")
    /\ UNCHANGED <<orch_vars, lock_path, snap_fs, snap_env, propagate_interrupt,
                   snap_contents, livedata_entries, tempvolume_entries,
                   conversion_entries>>

\* The tool is invoked while no other tool process is alive; the
\* invocations are numbered in the order they are made.
StartAlone(p) ==
    /\ \A q \in Invocations : q < p => spc[q] = "done"
    /\ \A q \in Invocations : q > p => spc[q] = "idle"
    /\ StartSnapshot(p)

\* The steps of the invocations that have been started
SnapSteps ==
    \/ LivedataWrite
    \/ \E p \in Invocations : CheckRunningSnapshotTransaction(p)
    \/ \E p \in Invocations : RemoveStaleLock(p)
    \/ \E p \in Invocations : CheckVolumes(p)
    \/ \E p \in Invocations : CheckLivedata(p)
    \/ \E p \in Invocations : CheckVolumesInLivedata(p)
    \/ \E p \in Invocations : CheckFilesystem(p)
    \/ \E p \in Invocations : CheckServiceRunning(p)
    \/ \E p \in Invocations : AcquireLock(p)
    \/ \E p \in Invocations : VerifyLock(p)
    \/ \E p \in Invocations : RecoverRenamed(p)
    \/ \E p \in Invocations : RecoverTempdata(p)
    \/ \E p \in Invocations : RecoverSnapshotDir(p)
    \/ \E p \in Invocations : RecoverTempvolume(p)
    \/ \E p \in Invocations : ConvertCreate(p)
    \/ \E p \in Invocations : ConvertCopy(p)
    \/ \E p \in Invocations : SwapRenameAside(p)
    \/ \E p \in Invocations : SwapRenameIn(p)
    \/ \E p \in Invocations : SwapDelete(p)
    \/ \E p \in Invocations : SwapInterrupt(p)
    \/ \E p \in Invocations : MakeSnapshotsDir(p)
    \/ \E p \in Invocations : TakeSnapshot(p)
    \/ \E p \in Invocations : Materialize(p)
    \/ \E p \in Invocations : DeleteSnapshot(p)

SnapNext ==
    \/ \E p \in Invocations : StartSnapshot(p)
    \/ SnapSteps

\* ------------------------------------------------------------------------
\* Specifications
\* ------------------------------------------------------------------------
\* No snapshot invocation while a start or restart request is modelled
SnapIdle ==
    /\ lock_path = <<>>
    /\ livedata_dir = "absent"
    /\ livedata_renamed_dir = "absent"
    /\ tempdata_dir = FALSE
    /\ snapshot_dir = "absent"
    /\ tempvolume_dir = FALSE
    /\ snapshots_dir = FALSE
    /\ snapshot_specific_dirs = <<>>
    /\ livedata_data = OldData
    /\ snapshot_data = OldData
    /\ taken_data = <<>>
    /\ livedata_entries = {}
    /\ renamed_entries = {}
    /\ tempvolume_entries = {}
    /\ conversion_entries = {}
    /\ propagate_interrupt = <<>>
    /\ rw_volumes = "none"
    /\ fs = "other"
    /\ service_running = FALSE
    /\ spc = <<>>
    /\ sresult = <<>>
    /\ NameIdle
    /\ ExitIdle

\* No start or restart request while snapshot invocations are modelled
OrchIdle ==
    /\ action = "snapshot"
    /\ dependencies = [c \in Catalog |-> <<>>]
    /\ containers = <<>>
    /\ stop_containers = <<>>
    /\ start_containers = <<>>
    /\ restart_dependant_containers = <<>>
    /\ pc = "snapshot"
    /\ running = {}
    /\ stopped = {}
    /\ tracker = {}
    /\ threads = <<>>
    /\ launch_i = 1
    /\ wpc = <<>>
    /\ wdep = <<>>
    /\ wobserved = <<>>
    /\ wlaunched = <<>>
    /\ wresult = <<>>
    /\ exit_status = -1
    /\ built = {}
    /\ stop_i = 1
    /\ argument = <<>>

Init == OrchInit /\ SnapIdle

Next == OrchNext

Spec == Init /\ [][Next]_vars

\* The same request with a coordinating thread that keeps running; nothing
\* is assumed about the launch workers.
SpecCoordinatorFair == Spec /\ WF_vars(Coordinator)

\* The same request when every thread keeps running and every command and
\* query it issues returns: each step of the coordinating thread and of
\* every worker is eventually taken.  The launched list is never longer
\* than twice the catalog.
SpecFair ==
    /\ SpecCoordinatorFair
    /\ \A w \in 1..(2 * NumContainers) : WF_vars(WorkerStep(w))

\* A start or restart request of any list get_containers can return, with
\* no container running; the planning loops alone
PlanInit ==
    /\ action \in {"start", "restart"}
    /\ dependencies \in DepGraphs
    /\ containers \in ResolvedLists
    /\ stop_containers = IF action = "restart" THEN containers ELSE <<>>
    /\ start_containers = containers
    /\ restart_dependant_containers = <<>>
    /\ pc = "plan_start"
    /\ running = {}
    /\ stopped = {}
    /\ tracker = {}
    /\ threads = <<>>
    /\ launch_i = 1
    /\ wpc = <<>>
    /\ wdep = <<>>
    /\ wobserved = <<>>
    /\ wlaunched = <<>>
    /\ wresult = <<>>
    /\ exit_status = -1
    /\ built = {}
    /\ stop_i = 1
    /\ argument = <<>>

InitPlan == PlanInit /\ SnapIdle

\* A start, restart or stop request before its targets are resolved, in a
\* catalog without declared links, followed up to the first launch
TargetsInit ==
    /\ action \in {"start", "restart", "stop"}
    /\ argument \in TokenLists
    /\ dependencies = [c \in Catalog |-> <<>>]
    /\ containers = <<>>
    /\ stop_containers = <<>>
    /\ start_containers = <<>>
    /\ restart_dependant_containers = <<>>
    /\ pc = "resolve"
    /\ running \in SUBSET Catalog
    /\ stopped = {}
    /\ tracker = {}
    /\ threads = <<>>
    /\ launch_i = 1
    /\ wpc = <<>>
    /\ wdep = <<>>
    /\ wobserved = <<>>
    /\ wlaunched = <<>>
    /\ wresult = <<>>
    /\ exit_status = -1
    /\ built = {}
    /\ stop_i = 1

InitTargets == TargetsInit /\ SnapIdle

TargetsNext ==
    \/ ResolveTargets
    \/ StopRequested
    \/ StopExit
    \/ PlanStartPass
    \/ PlanDependantPass
    \/ StopContainers

SpecTargets == InitTargets /\ [][TargetsNext]_vars

PlanNext == PlanStartPass \/ PlanDependantPass

SpecPlan == InitPlan /\ [][PlanNext]_vars

\* The planning loops keep running while they can
SpecPlanFair ==
    SpecPlan /\ WF_vars(PlanStartPass) /\ WF_vars(PlanDependantPass)

InitSnap == OrchIdle /\ SnapInit

SpecSnap == InitSnap /\ [][SnapNext]_vars

\* A service directory with a livedata/ and nothing a snapshot run leaves
\* behind: no lock file and no recovery artifact
InitRecover ==
    /\ InitSnap
    /\ lock_path = <<>>
    /\ livedata_dir # "absent"
    /\ livedata_renamed_dir = "absent"
    /\ ~tempdata_dir
    /\ snapshot_dir = "absent"
    /\ ~tempvolume_dir

\* Snapshot invocations made one after the other, each of which can be
\* killed at any point
RecoverNext ==
    \/ \E p \in Invocations : StartAlone(p)
    \/ \E p \in Invocations : Kill(p)
    \/ SnapSteps

SpecRecover == InitRecover /\ [][RecoverNext]_vars

\* No snapshot invocation is modelled step by step
SnapHeld ==
    /\ lock_path = <<>>
    /\ livedata_dir = "subvol"
    /\ livedata_renamed_dir = "absent"
    /\ tempdata_dir = FALSE
    /\ snapshot_dir = "subvol"
    /\ tempvolume_dir = FALSE
    /\ snapshots_dir = TRUE
    /\ snapshot_specific_dirs = <<>>
    /\ livedata_data = OldData
    /\ snapshot_data = OldData
    /\ taken_data = <<>>
    /\ livedata_entries = {}
    /\ renamed_entries = {}
    /\ tempvolume_entries = {}
    /\ conversion_entries = {}
    /\ propagate_interrupt = <<>>
    /\ rw_volumes = "inside"
    /\ fs = "btrfs"
    /\ service_running = FALSE
    /\ spc = <<>>
    /\ sresult = <<>>

InitName == OrchIdle /\ SnapHeld /\ NameInit /\ ExitIdle

SpecName == InitName /\ [][NameNext]_vars

InitExit == OrchIdle /\ SnapHeld /\ NameIdle /\ ExitInit

SpecExit == InitExit /\ [][ExitNext]_vars

TypeOK ==
    /\ pc \in {"plan_start", "plan_dependants", "stop", "launch", "join",
               "wait", "report", "exited", "crashed", "stop_loop", "resolve"}
    /\ tracker \subseteq Catalog
    /\ running \subseteq Catalog
    /\ exit_status \in {-1, 0, 1}

\* ------------------------------------------------------------------------
\* Properties of a start or restart request
\* ------------------------------------------------------------------------
\* Planning ran to its end (it did not exit on an unresolved dependency)
PlanDone == wpc # <<>>

Ended == pc \in {"exited", "crashed"}

Started(w) == wpc[w] # "idle"

\* C1: once planning is over, the start set is the set of all containers
\* reachable from the targets along resolved dependency edges.
C1_StartSetIsClosure ==
    PlanDone => Range(start_containers) = DepClosure(Range(containers))

\* C2: when a restart request has ended, every container that depends
\* directly or transitively on a target, and is no target, has been stopped
\* and has had a launch started for it.
C2_DependantsRestarted ==
    (action = "restart" /\ PlanDone /\ Ended) =>
        \A b \in DependantClosure(Range(containers)) \ Range(containers) :
            /\ b \in stopped
            /\ \E w \in Workers : WContainer(w) = b /\ Started(w)

\* The containers the request would start or restart: the targets, the
\* closure of their dependencies and, for restart, their dependants
WouldLaunch ==
    IF action = "stop" THEN {}
    ELSE DepClosure(Range(containers)) \cup
            (IF action = "restart" THEN DependantClosure(Range(containers)) ELSE {})

\* C3: when some container the request would start or restart has an
\* unresolved dependency, nothing is ever stopped, no launch worker is ever
\* started and the exit status is failure.
C3_UnresolvedAbortsPlanning ==
    (\E c \in WouldLaunch : Unknown \in Range(dependencies[c])) =>
        /\ stopped = {}
        /\ \A w \in Workers : ~Started(w)
        /\ Ended => exit_status = 1

\* C4: a worker that has left its dependency-wait step, or has invoked the
\* build/recreate/up sequence, has observed every dependency of its
\* container running (and every one of them is resolved).
C4_LaunchAfterDepsObserved ==
    \A w \in Workers :
        (wlaunched[w] \/ wpc[w] \in {"launch", "settle"}) =>
            \A k \in 1..Len(WDeps(w)) :
                Resolved(WDeps(w)[k]) /\ WDeps(w)[k] \in wobserved[w]

\* A worker launched its container after waiting for two dependencies, one
\* of which is no longer running.
C4_Witness ==
    \E w \in Workers :
        /\ wlaunched[w]
        /\ Len(WDeps(w)) >= 2
        /\ \E k \in 1..Len(WDeps(w)) : WDeps(w)[k] \notin running

InDependencyWait(w) == wpc[w] \in {"dep_if", "dep_while"}

\* C5: a worker that is in its dependency-wait step while some dependency of
\* its container is in the Failure Tracker does not go on to launch.
C5_AbortOnAnyFailedDependency ==
    [][\A w \in Workers :
          (InDependencyWait(w) /\ ResolvedDeps(WContainer(w)) \cap tracker # {})
              => wpc'[w] # "launch"]_vars

\* C6: the tracker is read for the exit status when every worker has
\* finished, and a request that exits with a non-empty tracker exits 1.
C6_FailureMeansExit1 ==
    /\ pc = "report" => \A w \in Workers : Finished(w)
    /\ (pc = "exited" /\ tracker # {}) => exit_status = 1

\* The request exited 1 after a worker that had been sent to the background
\* recorded a failure.
C6_Witness ==
    /\ pc = "exited"
    /\ exit_status = 1
    /\ \E k \in 1..Len(threads) : wresult[threads[k]] \in {"failed", "aborted"}

\* C7: a request exits 0 only if every worker confirmed its container
\* running.
C7_ExitZeroOnlyIfAllRunning ==
    (pc = "exited" /\ exit_status = 0) =>
        \A w \in Workers : wresult[w] = "running"

\* C8: when the request reports its status and exits, no worker is alive:
\* every worker has been started and has finished, the background ones
\* included.
C8_NoWorkerAliveAtExit ==
    (PlanDone /\ pc \in {"report", "exited"}) =>
        /\ \A w \in Workers : ~Alive(w)
        /\ \A k \in 1..Len(threads) : Finished(threads[k])

\* The request exited after two workers had been sent to the background.
C8_Witness ==
    /\ pc = "exited"
    /\ Len(threads) >= 2

\* C9: a worker gives up its launch only because of a launch failure of a
\* container its own container depends on, directly or transitively; the
\* failure of any other container leaves it alone.
C9_FailureIsolated ==
    \A w \in Workers :
        wresult[w] = "aborted" =>
            /\ ResolvedDeps(WContainer(w)) \cap tracker # {}
            /\ \E x \in Workers :
                  /\ wresult[x] = "failed"
                  /\ WContainer(x) \in DepClosure(ResolvedDeps(WContainer(w)))

\* A container failed to launch, and a container launched after it that
\* does not depend on it was confirmed running.
C9_Witness ==
    \E x, y \in Workers :
        /\ x < y
        /\ wresult[x] = "failed"
        /\ wresult[y] = "running"
        /\ wlaunched[y]
        /\ WContainer(x) \notin DepClosure({WContainer(y)})

FailedResults ==
    {"in_progress", "no_livedata", "needs_stop", "collision",
     "not_a_snapshot", "copy_failed", "finished"}

\* The invocation is about to re-read a lock file that holds another token
SeesForeignToken(p) ==
    spc[p] = "verify" /\ lock_path # <<>> /\ lock_path # <<p>>

Alone(p) == \A q \in Invocations \ {p} : spc[q] = "idle"

WriterGone ==
    \/ lock_path = <<StaleToken>>
    \/ \E q \in Invocations : lock_path = <<q>> /\ spc[q] = "done"

OwnerRunning(p) ==
    \E q \in Invocations \ {p} : lock_path = <<q>> /\ SnapAlive(q)

OnlyLeftover == livedata_dir = "absent" /\ livedata_renamed_dir # "absent"

BothPresent == livedata_dir # "absent" /\ livedata_renamed_dir # "absent"

RecoveryFailures ==
    {"no_livedata", "exit1", "not_a_snapshot", "in_progress", "collision"}

RECURSIVE Digits(_, _)
Digits(n, width) ==
    IF width = 0 THEN <<>>
    ELSE Digits(n \div 10, width - 1) \o <<DigitChar[(n % 10) + 1]>>

\* YYYYMMDD-HHMMSS
Timestamp(t) ==
    Digits(t.year, 4) \o Digits(t.month, 2) \o Digits(t.day, 2) \o <<"-">>
        \o Digits(t.hour, 2) \o Digits(t.minute, 2) \o Digits(t.second, 2)

C26_NoDependenciesStartSetIsTarget ==
    (/\ action = "start"
     /\ Len(containers) = 1
     /\ dependencies[containers[1]] = <<>>
     /\ pc \notin {"plan_start"}) =>
        start_containers = containers

\* Planning of such a request is over, in a catalog where other containers
\* have dependencies and one of them depends on the target.
C26_Witness ==
    /\ action = "start"
    /\ Len(containers) = 1
    /\ dependencies[containers[1]] = <<>>
    /\ pc = "stop"
    /\ \E c \in Catalog : containers[1] \in ResolvedDeps(c)
    /\ \E c \in Catalog : ResolvedDeps(c) \ {containers[1]} # {}

\* A container reaches itself along resolved dependency edges: the graph
\* has a cycle or a self-dependency
OnCycle(c) == c \in DepClosure(ResolvedDeps(c))

\* C27: for every dependency graph, graphs with cycles and self-dependencies
\* included, both planning loops come to an end: the request leaves the
\* start-set loop and the dependant-set loop.
C27_PlanningTerminates ==
    <>(pc \notin {"plan_start", "plan_dependants"})

\* Planning of a restart request ended for a graph in which a target lies
\* on a cycle of two containers.
C27_Witness ==
    /\ pc = "stop"
    /\ action = "restart"
    /\ \E c \in Range(containers) : OnCycle(c) /\ c \notin ResolvedDeps(c)

\* C28: in every plan, each container appears at most once in the stop set,
\* at most once in the start set and at most once in the dependant set, for
\* every dependency graph, cyclic ones included.
C28_NoContainerTwiceInASet ==
    /\ NoDup(stop_containers)
    /\ NoDup(start_containers)
    /\ NoDup(restart_dependant_containers)

\* Planning of a restart request ended with dependencies and dependants
\* collected for a cyclic graph.
C28_Witness ==
    /\ pc = "stop"
    /\ action = "restart"
    /\ Len(start_containers) > Len(containers)
    /\ restart_dependant_containers # <<>>
    /\ \E c \in Catalog : OnCycle(c)

\* The token names a service Service.find_by_name does not find, or a
\* container its service does not have
UnknownTarget(target) ==
    /\ target.kind # "all"
    /\ \/ target.service \notin Services
       \/ /\ target.kind = "container"
          /\ target.container \notin ContainersOf(target.service)

\* C29: when a target token of a start, stop or restart request names an
\* unknown service or an unknown container, the request gets no further
\* than target resolution: it ends there with exit status 1, no container
\* is stopped and no launch is started, also when other tokens of the
\* request are valid.
C29_UnknownTargetAborts ==
    (\E k \in 1..Len(argument) : UnknownTarget(argument[k])) =>
        /\ pc \in {"resolve", "crashed"}
        /\ pc = "crashed" => exit_status = 1
        /\ stopped = {}
        /\ built = {}
        /\ \A w \in Workers : ~Started(w)

\* C30: a stop command that fails during a restart or a stop request never
\* ends the coordinating thread with an unhandled error: no step in which
\* the command is run and the container is not stopped takes the
\* coordinator out of its loop into the crashed state.
C30_ToolFailureNeverCrashes ==
    [][~(/\ pc \in {"stop", "stop_loop"}
         /\ stopped' = stopped
         /\ pc' = "crashed")]_vars

\* C31: a launch worker whose command sequence fails (the worker ends in
\* the step that runs it) or whose container is not running at the check
\* after the settle delay has its container in the failed launch tracker
\* when it ends.
C31_FailedLaunchRecorded ==
    [][\A w \in Workers :
          (/\ wpc'[w] = "end"
           /\ \/ wpc[w] = "launch"
              \/ wpc[w] = "settle" /\ WContainer(w) \notin running)
          => WContainer(w) \in tracker']_vars

\* Both failures have happened in one request: one worker ended in its
\* command sequence, another at the check after the delay.
C31_Witness ==
    /\ \E w \in Workers :
          wresult[w] = "failed" /\ WContainer(w) \in built \ running
    /\ \E w \in Workers :
          /\ wresult[w] = "failed" /\ wlaunched[w]
          /\ WContainer(w) \notin built
    /\ pc = "exited"

C34_EveryWorkerStarted ==
    <>(\/ action = "stop"
       \/ pc = "exited"
       \/ wpc # <<>> /\ \A w \in Workers : Started(w))

\* Every member of the stop set and of the dependent set has had its stop
\* command run to completion
AllStopped ==
    Range(stop_containers \o restart_dependant_containers) \subseteq stopped

C36_StartStopsNothing ==
    action = "start" =>
        /\ stop_containers = <<>>
        /\ restart_dependant_containers = <<>>
        /\ stopped = {}
        /\ built \subseteq DepClosure(Range(containers))
        /\ \A w \in Workers :
              Started(w) => WContainer(w) \in DepClosure(Range(containers))

\* A start request has launched something and exited, and a container that
\* links to one of its targets was left alone.
C36_Witness ==
    /\ action = "start"
    /\ pc = "exited"
    /\ built # {}
    /\ \E c \in Catalog \ DepClosure(Range(containers)) :
          ResolvedDeps(c) \cap Range(containers) # {}

\* C37: once planning is over, no container occurs twice in the list that
\* is launched (the start set followed by the dependent set), so that at
\* most one launch worker is started per container.
C37_NoContainerLaunchedTwice ==
    pc \notin {"plan_start", "plan_dependants"} => NoDup(LaunchList)

\* No container reaches itself along its resolved dependencies
Acyclic == \A c \in Catalog : ~OnCycle(c)

\* C38: with an acyclic dependency graph and commands and queries that
\* all return, every start or restart request eventually ends: no worker
\* polls a dependency for ever and the coordinating thread gets to the end
\* of the process.
C38_RequestEventuallyExits ==
    (Acyclic /\ action \in {"start", "restart"}) => <>Ended

\* The directory exists and every entry livedata/ had when the conversion
\* began is one of its own top-level entries
HoldsLiveData(dir, entries) ==
    dir # "absent" /\ conversion_entries \subseteq entries

====
